---- MODULE Spec2Model ----
(***************************************************************************)
(* A model of package wincommands: the facade operations ExtractText,      *)
(* Thumbnail, FileCopy, FileCopyLog and WordToPdf, the overwrite guard,    *)
(* MakeDir, and the bounded executor timeOutRun with its kill timer.       *)
(*                                                                         *)
(* One caller issues the operations one after the other.  Beside it run    *)
(* the child process it started, the goroutine of the time.AfterFunc       *)
(* callback, and the clock.  The output directory and two files in it      *)
(* (the destination "out" and a bystander "other") are the file system.    *)
(*                                                                         *)
(* Strings whose inside matters (paths, command tokens) are sequences of   *)
(* pieces: the space, the double quote, the dot, the path separator, and   *)
(* pieces that hold none of these.  SpecStrings applies the pure functions *)
(* buildCmd, quotePath and the naming of WordToPdf's output to such        *)
(* strings; SpecConfig runs the configuration setters before calls.        *)
(***************************************************************************)
EXTENDS Integers, Sequences, FiniteSets, TLC

\* ---- bounds of the model ------------------------------------------------
MaxExitCode == 2     \* the tools exit with a status in 0..MaxExitCode
MaxTimeout == 2      \* SetTimeout is called with 1..MaxTimeout seconds
MaxLog == 2          \* lines the log sink holds before no more calls are made
MaxOrphans == 1      \* kill callbacks left pending by returned timeOutRun calls
MaxLen == 3          \* pieces of a path given to quotePath or WordToPdf
MaxTokens == 2       \* tokens of a template, and of the trailing arguments
MaxDim == 2          \* SetThumb is called with x and y in 1..MaxDim

\* ---- program constants --------------------------------------------------
DefaultTimeout == 30 \* timeout = 30 * time.Second

\* ---- value sets -----------------------------------------------------------
Platforms == {"windows", "other"}
OpNames == {"ExtractText", "Thumbnail", "FileCopy", "FileCopyLog", "WordToPdf"}
Names == {"out", "other"}
Texts == {"t1", "t2"}
Contents == {"absent", "old", "tool"} \cup Texts
DirStates == {"absent", "dir", "file", "nocreate", "dangling"}
ExitCodes == 0..MaxExitCode

Nil == [kind |-> "nil", code |-> 0]
Error(k) == [kind |-> k, code |-> 0]
NoChild == [st |-> "none", status |-> 0, stdout |-> ""]
NoFiles == [n \in Names |-> "absent"]

VARIABLES
    platform,  \* the build: wincommands_windows.go or the other copy backend
    timeout,   \* the package variable timeout, in seconds
    dir,       \* what is at the path outdir
    files,     \* content of each file of outdir
    log,       \* the lines written to the log sink
    sinkOk,    \* whether the log sink accepts writes
    pc,        \* the caller's position
    call,      \* the operation in progress and its overwrite flag
    child,     \* the child process of the call: state, exit status, stdout
    timer,     \* the AfterFunc timer of timeOutRun
    dur,       \* timeOutRun's parameter dur
    elapsed,   \* seconds passed since the timer was armed
    err,       \* the local variable err of the running function
    ret,       \* what the last call returned
    nstarted,  \* child processes started by the call
    orphans,   \* callbacks still pending after their timeOutRun returned
    fired,     \* the timer of the current timeOutRun has fired
    earlyExit, \* the child exited by itself before dur had elapsed
    firedRunning, \* the timer fired while the child was still running
    killed,    \* Kill has ended the running child
    guard,     \* what handleOverwrite answered in the call
    pre,       \* the file system and the log as they were when the call began
    made,      \* what MakeDir returned in the call
    cmd,       \* the command the call has built: its path and its Args
    tikaInstall, imageMInstall, libreOfficeInstall, ffmpegInstall,
    thumbDimensions,  \* the package variables of the configuration
    extract, thumb, pdf, ffmpeg,  \* the tool templates built from them
    last,      \* the value each setter was last called with
    fn,        \* SpecStrings: the function applied last
    arg,       \* SpecStrings: its argument
    res,       \* SpecStrings: its result
    res2       \* SpecStrings: quotePath applied to that result

vars == <<platform, timeout, dir, files, log, sinkOk, pc, call, child, timer,
          dur, elapsed, err, ret, nstarted, orphans, fired, earlyExit,
          firedRunning, killed, guard, pre, made, cmd, tikaInstall,
          imageMInstall, libreOfficeInstall, ffmpegInstall, thumbDimensions,
          extract, thumb, pdf, ffmpeg, last, fn, arg, res, res2>>

config == <<tikaInstall, imageMInstall, libreOfficeInstall, ffmpegInstall,
            thumbDimensions, extract, thumb, pdf, ffmpeg, last>>
strings == <<fn, arg, res, res2>>
env == <<platform, sinkOk, config, strings>>
fs == <<dir, files>>
proc == <<child, timer, dur, elapsed, fired, earlyExit, firedRunning, killed>>


\* ---- the file system and the standard library, as the code uses them ------

\* os.Stat(output) returns a nil error
Stat(name) == dir = "dir" /\ files[name] # "absent"

\* the error of os.MkdirAll(outdir, 0777)
MkdirAllErr(d) ==
    CASE d = "dir" -> "nil"          \* already a directory: nothing to do
      [] d = "absent" -> "nil"       \* created
      [] d = "file" -> "ENOTDIR"     \* a file is in the way
      [] d = "nocreate" -> "EACCES"  \* the parent refuses the creation
      [] d = "dangling" -> "EEXIST"  \* a dangling link: Mkdir finds it there

\* what is at outdir after os.MkdirAll
MkdirAllPost(d) == IF d = "absent" THEN "dir" ELSE d

IsExist(e) == e = "EEXIST"

\* the status a killed child is waited with: TerminateProcess(h, 1) or SIGKILL
KilledStatus == IF platform = "windows" THEN 1 ELSE -1

\* the error of cmd.Wait for a child that exited with status s
WaitErr(s) == IF s = 0 THEN Nil ELSE [kind |-> "exit", code |-> s]

\* ---- the functions of the package ------------------------------------------

\* handleOverwrite without the test of the overwrite flag
handleOverwriteNoFlag(overwrite, output) ==
    IF Stat(output) THEN TRUE ELSE FALSE

handleOverwrite(overwrite, output) ==
    IF ~overwrite
    THEN IF Stat(output) THEN TRUE ELSE FALSE
    ELSE FALSE

MakeDir(d) ==
    LET e == MkdirAllErr(d) IN
    IF IsExist(e) THEN [err |-> Nil, existed |-> TRUE]
    ELSE IF e = "nil" THEN [err |-> Nil, existed |-> FALSE]
    ELSE [err |-> Error("mkdir"), existed |-> FALSE]

\* runRobo reading the exit status as runXcopy does: zero is success
runRoboConventional(e) ==
    IF e = Nil THEN Nil ELSE Error("copy")

\* runRobo's result from the error e of cpCmd.Run()
runRobo(e) ==
    IF e = Nil THEN Error("nocopy")
    ELSE IF e.kind = "exit" /\ e.code = 1 THEN Nil
    ELSE Error("copy")

\* fileCopy of the build: robocopy through runRobo, or cp's own error
fileCopy(e) == IF platform = "windows" THEN runRobo(e) ELSE e

\* ---- strings -------------------------------------------------------------------

\* the pieces a string is made of
Space == " "
Quote == "\""
Dot == "."
Sep == "/"

\* all strings of at most n pieces of S
SeqsUpTo(S, n) == UNION {[1..k -> S] : k \in 0..n}

\* strings.HasPrefix(s, c) and strings.Contains(s, c) for a one-character c
HasPrefix(s, c) == Len(s) > 0 /\ s[1] = c
Contains(s, c) == \E i \in 1..Len(s) : s[i] = c

\* strings.TrimSuffix(s, suffix)
TrimSuffix(s, suffix) ==
    IF Len(suffix) <= Len(s)
       /\ SubSeq(s, Len(s) - Len(suffix) + 1, Len(s)) = suffix
    THEN SubSeq(s, 1, Len(s) - Len(suffix))
    ELSE s

\* strings.Join(elems, sep)
RECURSIVE Join(_, _)
Join(elems, sep) ==
    IF elems = <<>> THEN <<>>
    ELSE IF Len(elems) = 1 THEN elems[1]
    ELSE elems[1] \o sep \o Join(Tail(elems), sep)

\* filepath.Ext: from the last dot of the last element, scanning backwards
RECURSIVE ExtFrom(_, _)
ExtFrom(path, i) ==
    IF i < 1 \/ path[i] = Sep THEN <<>>
    ELSE IF path[i] = Dot THEN SubSeq(path, i, Len(path))
    ELSE ExtFrom(path, i - 1)

Ext(path) == ExtFrom(path, Len(path))

\* the index of the last separator of path at or before i, 0 if none
RECURSIVE LastSep(_, _)
LastSep(path, i) ==
    IF i < 1 THEN 0
    ELSE IF path[i] = Sep THEN i
    ELSE LastSep(path, i - 1)

\* path without its trailing separators
RECURSIVE StripSeps(_)
StripSeps(path) ==
    IF Len(path) > 0 /\ path[Len(path)] = Sep
    THEN StripSeps(SubSeq(path, 1, Len(path) - 1))
    ELSE path

\* filepath.Base
Base(path) ==
    IF path = <<>> THEN <<Dot>>
    ELSE LET q == StripSeps(path)
             b == SubSeq(q, LastSep(q, Len(q)) + 1, Len(q))
         IN IF b = <<>> THEN <<Sep>> ELSE b

\* filepath.Split: the directory with its separator, and the file name
Split(path) ==
    LET i == LastSep(path, Len(path))
    IN [dir |-> SubSeq(path, 1, i), file |-> SubSeq(path, i + 1, Len(path))]

\* filepath.Clean on a path without "." and ".." elements: runs of
\* separators become one, a trailing separator goes unless it is the root
RECURSIVE Collapse(_)
Collapse(path) ==
    IF Len(path) < 2 THEN path
    ELSE IF path[1] = Sep /\ path[2] = Sep THEN Collapse(Tail(path))
    ELSE <<path[1]>> \o Collapse(Tail(path))

Clean(path) ==
    LET c == Collapse(path)
    IN IF c = <<>> THEN <<Dot>>
       ELSE IF Len(c) > 1 /\ c[Len(c)] = Sep THEN SubSeq(c, 1, Len(c) - 1)
       ELSE c

\* filepath.Join(a, b): empty elements are ignored, the result is cleaned
JoinPath(a, b) ==
    IF a = <<>> /\ b = <<>> THEN <<>>
    ELSE IF a = <<>> THEN Clean(b)
    ELSE IF b = <<>> THEN Clean(a)
    ELSE Clean(a \o <<Sep>> \o b)

\* ---- commands ------------------------------------------------------------------

\* quotePath wrapping every path that holds a space, quoted already or not
quotePathAlways(path) ==
    IF Contains(path, Space) THEN <<Quote>> \o path \o <<Quote>> ELSE path

quotePath(path) ==
    IF HasPrefix(path, Quote) THEN path
    ELSE IF Contains(path, Space) THEN <<Quote>> \o path \o <<Quote>>
    ELSE path

\* what indexing an empty slice does
Panic == [path |-> <<"panic">>, args |-> <<>>]

\* buildCmd handing the trailing arguments over as one space-joined token
buildCmdJoined(template, custom) ==
    LET c == IF custom = <<>> THEN template
             ELSE Append(template, Join(custom, <<Space>>))
    IN IF c = <<>> THEN Panic ELSE [path |-> c[1], args |-> c]

\* buildCmd: the tokens are copied into a new slice, the template is only
\* read; exec.Command(cmd[0], cmd[1:]...) has Args = cmd
buildCmd(template, custom) ==
    LET n == Len(template) + Len(custom)
        c == [i \in 1..n |-> IF i <= Len(template) THEN template[i]
                             ELSE custom[i - Len(template)]]
    IN IF n = 0 THEN Panic
       ELSE [path |-> c[1], args |-> <<c[1]>> \o Tail(c)]

\* the templates, from the package variables they are built from
extractTemplate(t) == << <<"java">>, <<"-jar">>, t, <<"-t">> >>
thumbTemplate(i, d) ==
    << i, <<"-resize">>, d, <<"-flatten">>, <<"-quality">>, <<"100">> >>
pdfTemplate(l) ==
    << l, <<"--headless">>, <<"--convert-to">>, <<"pdf:writer_pdf_Export">>,
       <<"--outdir">> >>
ffmpegTemplate(f) == << f >>

rcp == << <<"robocopy">> >>
xcp == << <<"xcopy">> >>
cp == << <<"cp">> >>

robo(input, outdir, quote) ==
    LET sp == Split(input)
        d == IF Len(sp.dir) > 0 THEN SubSeq(sp.dir, 1, Len(sp.dir) - 1)
             ELSE sp.dir
    IN IF quote
       THEN buildCmd(rcp, <<quotePath(d), quotePath(outdir), quotePath(sp.file)>>)
       ELSE buildCmd(rcp, <<d, outdir, sp.file>>)

xcopy(input, outdir, quote) ==
    IF quote THEN buildCmd(xcp, <<quotePath(input), quotePath(outdir)>>)
    ELSE buildCmd(xcp, <<input, outdir>>)

\* copyCmd of the build
copyCmd(input, outdir, quote) ==
    IF platform = "windows" THEN xcopy(input, outdir, quote)
    ELSE buildCmd(cp, <<input, outdir>>)

\* the command fileCopy runs in the build
fileCopyCmd(input, outdir) ==
    IF platform = "windows" THEN robo(input, outdir, FALSE)
    ELSE copyCmd(input, outdir, FALSE)

\* the extensions WordToPdf replaces
WordExts == {<<Dot, "doc">>, <<Dot, "DOC">>, <<Dot, "docx">>, <<Dot, "DOCX">>,
             <<Dot, "dotx">>, <<Dot, "DOTX">>, <<Dot, "docm">>, <<Dot, "DOCM">>}

PdfExt == <<Dot, "pdf">>

\* WordToPdf's output replacing whatever extension the input has
WordToPdfOutputReplacing(input, outdir) ==
    JoinPath(outdir, TrimSuffix(Base(input), Ext(input)) \o PdfExt)

\* the path WordToPdf checks and returns
WordToPdfOutput(input, outdir) ==
    IF Ext(input) \in WordExts
    THEN JoinPath(outdir, TrimSuffix(Base(input), Ext(input)) \o PdfExt)
    ELSE JoinPath(outdir, Base(input) \o PdfExt)

\* ---- configuration ---------------------------------------------------------------

DefaultTika == <<"C:\\apache_tika\\tika-app-1.5.jar">>
DefaultImageM ==
    <<"C:\\Program", Space, "Files\\ImageMagick-6.8.8-Q16\\convert.exe">>
DefaultLibreO ==
    <<"C:\\Program", Space, "Files\\LibreOffice", Space, "5\\program\\soffice">>
DefaultFFMpeg == <<"C:\\ffmpeg\\bin\\ffmpeg.exe">>
DefaultDimensions == <<"1024x1024">>

\* fmt.Sprintf("%dx%d", x, y)
Sprintf(x, y) == <<ToString(x) \o "x" \o ToString(y)>>

\* the paths the setters are called with
SetPaths == {<<"D:\\tools\\bin">>, <<"D:\\my", Space, "tools\\bin">>}

\* the arguments of the calls
InputPath == <<"in", Space, "dir", Sep, "a", Dot, "doc">>
OutDirPath == <<"out", Space, "dir">>
OutName == <<"a", Dot, "out">>

NoMade == [called |-> FALSE, err |-> Nil, existed |-> FALSE]
NoCmd == [path |-> <<>>, args |-> <<>>]

\* ---- initial state -------------------------------------------------------------

\* the package variables as the var block initialises them
InitConfig ==
    /\ tikaInstall = DefaultTika
    /\ imageMInstall = DefaultImageM
    /\ libreOfficeInstall = DefaultLibreO
    /\ ffmpegInstall = DefaultFFMpeg
    /\ thumbDimensions = DefaultDimensions
    /\ extract = extractTemplate(DefaultTika)
    /\ thumb = thumbTemplate(DefaultImageM, DefaultDimensions)
    /\ pdf = pdfTemplate(DefaultLibreO)
    /\ ffmpeg = ffmpegTemplate(DefaultFFMpeg)
    /\ last = [tika |-> DefaultTika, imageM |-> DefaultImageM,
               libreO |-> DefaultLibreO, ffmpeg |-> DefaultFFMpeg,
               dimensions |-> DefaultDimensions, timeout |-> DefaultTimeout]

\* the files and the log writer the caller may have
InitEnv ==
    /\ platform \in Platforms
    /\ dir \in DirStates
    /\ files \in [Names -> {"absent", "old"}]
    /\ dir # "dir" => files = NoFiles
    /\ sinkOk \in BOOLEAN

\* the package before any call
InitProgram ==
    /\ timeout = DefaultTimeout
    /\ log = <<>>
    /\ pc = "idle"
    /\ call = [op |-> "none", overwrite |-> FALSE]
    /\ child = NoChild
    /\ timer = "none"
    /\ dur = 0
    /\ elapsed = 0
    /\ err = Nil
    /\ ret = [err |-> Nil, path |-> ""]
    /\ nstarted = 0
    /\ orphans = 0
    /\ fired = FALSE
    /\ earlyExit = FALSE
    /\ firedRunning = FALSE
    /\ killed = FALSE
    /\ guard = "none"
    /\ pre = [dir |-> dir, files |-> files, log |-> log]
    /\ made = NoMade
    /\ cmd = NoCmd
    /\ InitConfig

\* no pure function is under test
NoStrings ==
    /\ fn = "none"
    /\ arg = <<>>
    /\ res = <<>>
    /\ res2 = <<>>

Init ==
    /\ InitEnv
    /\ InitProgram
    /\ NoStrings

\* ---- the caller ----------------------------------------------------------------

Entry(op) ==
    CASE op = "ExtractText" -> "et_guard"
      [] op = "Thumbnail" -> "th_guard"
      [] op = "FileCopy" -> "fc_guard"
      [] op = "FileCopyLog" -> "fl_guard"
      [] op = "WordToPdf" -> "wp_guard"

\* the caller calls the operation op with the overwrite flag ow
Call(op, ow) ==
    /\ pc \in {"idle", "done"}
    /\ orphans < MaxOrphans
    /\ op = "FileCopyLog" => Len(log) < MaxLog
    /\ call' = [op |-> op, overwrite |-> ow]
    /\ pc' = Entry(op)
    /\ child' = NoChild
    /\ timer' = "none"
    /\ dur' = 0
    /\ elapsed' = 0
    /\ err' = Nil
    /\ nstarted' = 0
    /\ fired' = FALSE
    /\ earlyExit' = FALSE
    /\ firedRunning' = FALSE
    /\ killed' = FALSE
    /\ guard' = "none"
    /\ ret' = [err |-> Nil, path |-> ""]
    /\ pre' = [dir |-> dir, files |-> files, log |-> log]
    /\ made' = NoMade
    /\ cmd' = NoCmd
    /\ UNCHANGED <<env, timeout, fs, log, orphans>>

SetTimeout(t) ==
    /\ pc \in {"idle", "done"}
    /\ timeout' = t
    /\ last' = [last EXCEPT !.timeout = t]
    /\ UNCHANGED <<platform, sinkOk, strings, tikaInstall, imageMInstall,
                   libreOfficeInstall, ffmpegInstall, thumbDimensions,
                   extract, thumb, pdf, ffmpeg, fs, log, pc, call, guard,
                   proc, err, ret, nstarted, orphans, pre, made, cmd>>

\* the guard's answer, as the ghost variable guard records it
Answer(skip) == IF skip THEN "skip" ELSE "proceed"

\* the operation returns (e, p)
Return(e, p) ==
    /\ pc' = "done"
    /\ ret' = [err |-> e, path |-> p]

\* cmd.Start(), tikaCmd.Output() or cpCmd.Run() has started the child
Started ==
    /\ child' = [st |-> "running", status |-> 0, stdout |-> ""]
    /\ nstarted' = nstarted + 1

\* ---- ExtractText -------------------------------------------------------------

\* if handleOverwrite(overwrite, output) { return nil }
ExtractTextGuard ==
    /\ pc = "et_guard"
    /\ guard' = Answer(handleOverwrite(call.overwrite, "out"))
    /\ IF handleOverwrite(call.overwrite, "out")
       THEN Return(Nil, "")
       ELSE pc' = "et_mkdir" /\ UNCHANGED ret
    /\ UNCHANGED <<env, timeout, fs, log, call, proc, err, nstarted, orphans,
                   pre,
                   made, cmd>>

\* if err, _ := MakeDir(outdir); err != nil { return err }
ExtractTextMakeDir ==
    /\ pc = "et_mkdir"
    /\ dir' = MkdirAllPost(dir)
    /\ made' = [called |-> TRUE, err |-> MakeDir(dir).err,
                existed |-> MakeDir(dir).existed]
    /\ IF MakeDir(dir).err # Nil
       THEN Return(MakeDir(dir).err, "")
       ELSE pc' = "et_output" /\ UNCHANGED ret
    /\ UNCHANGED <<env, timeout, files, log, call, guard, proc, err, nstarted,
                   orphans, pre,
                   cmd>>

\* tikaCmd := buildCmd(extract, input); tikaCmd.Output() starts the tool, or
\* fails to: return nil
ExtractTextOutput ==
    /\ pc = "et_output"
    /\ cmd' = buildCmd(extract, <<InputPath>>)
    /\ \E ok \in BOOLEAN :
          IF ok
          THEN Started /\ pc' = "et_wait" /\ UNCHANGED <<err, ret>>
          ELSE /\ err' = Error("start")
               /\ Return(Nil, "")
               /\ UNCHANGED <<child, nstarted>>
    /\ UNCHANGED <<env, timeout, fs, log, call, guard, timer, dur, elapsed,
                   fired,
                   earlyExit, firedRunning, killed, orphans, pre,
                   made>>

\* ioutil.WriteFile(output, txt, os.ModePerm) can create the file
WriteFileOk == dir = "dir"

\* ExtractText with the return that line 138 comments out: the tool's
\* failure is returned
ExtractTextWriteStrict ==
    /\ pc = "et_wait"
    /\ child.st = "exited"
    /\ child' = [child EXCEPT !.st = "reaped"]
    /\ err' = WaitErr(child.status)
    /\ IF WaitErr(child.status) # Nil
       THEN Return(Error("text"), "") /\ UNCHANGED files
       ELSE IF WriteFileOk
            THEN /\ files' = [files EXCEPT !["out"] = child.stdout]
                 /\ Return(Nil, "")
            ELSE Return(Error("write"), "") /\ UNCHANGED files
    /\ UNCHANGED <<env, timeout, dir, log, call, guard, timer, dur, elapsed,
                   fired, earlyExit, firedRunning, killed, nstarted, orphans,
                   pre,
                   made, cmd>>

\* tikaCmd.Output() returns: a failure is swallowed, the text is written
ExtractTextWrite ==
    /\ pc = "et_wait"
    /\ child.st = "exited"
    /\ child' = [child EXCEPT !.st = "reaped"]
    /\ err' = WaitErr(child.status)
    /\ IF WaitErr(child.status) # Nil
       THEN Return(Nil, "") /\ UNCHANGED files
       ELSE IF WriteFileOk
            THEN /\ files' = [files EXCEPT !["out"] = child.stdout]
                 /\ Return(Nil, "")
            ELSE Return(Error("write"), "") /\ UNCHANGED files
    /\ UNCHANGED <<env, timeout, dir, log, call, guard, timer, dur, elapsed,
                   fired,
                   earlyExit, firedRunning, killed, nstarted, orphans, pre,
                   made, cmd>>

\* ---- timeOutRun ----------------------------------------------------------------

\* Thumbnail calling timeOutRun without returning its error
TorReturnDropped(e) ==
    IF call.op = "Thumbnail"
    THEN Return(Nil, "")
    ELSE pc' = "wp_stat" /\ UNCHANGED ret

\* timeOutRun running the command once more when it has failed
TorReturnRetrying(e) ==
    IF e # Nil /\ nstarted < 2
    THEN pc' = "tor_start" /\ UNCHANGED ret
    ELSE IF call.op = "Thumbnail"
         THEN Return(e, "")
         ELSE pc' = "wp_stat" /\ UNCHANGED ret

\* timeOutRun returns e: Thumbnail returns it, WordToPdf goes on to os.Stat
TorReturn(e) ==
    IF call.op = "Thumbnail"
    THEN Return(e, "")
    ELSE pc' = "wp_stat" /\ UNCHANGED ret

\* err := cmd.Start(); if err != nil { return err }
TorStart ==
    /\ pc = "tor_start"
    /\ \E ok \in BOOLEAN :
          IF ok
          THEN Started /\ pc' = "tor_arm" /\ UNCHANGED <<err, ret>>
          ELSE /\ err' = Error("start")
               /\ TorReturn(Error("start"))
               /\ UNCHANGED <<child, nstarted>>
    /\ UNCHANGED <<env, timeout, fs, log, call, guard, timer, dur, elapsed,
                   fired,
                   earlyExit, firedRunning, killed, orphans, pre,
                   made, cmd>>

\* timer := time.AfterFunc(dur, func() {...})
TorAfterFunc ==
    /\ pc = "tor_arm"
    /\ timer' = "armed"
    /\ elapsed' = 0
    /\ pc' = "tor_wait"
    /\ UNCHANGED <<env, timeout, fs, log, call, guard, child, dur, fired,
                   earlyExit, firedRunning, killed,
                   err, ret, nstarted, orphans, pre,
                   made, cmd>>

\* err = cmd.Wait() returns once the child has exited, and reaps it
TorWait ==
    /\ pc = "tor_wait"
    /\ child.st = "exited"
    /\ child' = [child EXCEPT !.st = "reaped"]
    /\ err' = WaitErr(child.status)
    /\ pc' = "tor_stop"
    /\ UNCHANGED <<env, timeout, fs, log, call, guard, timer, dur, elapsed,
                   fired,
                   earlyExit, firedRunning, killed, ret, nstarted, orphans, pre,
                   made, cmd>>

\* timer.Stop(); return err.  Stop disarms a timer that has not fired; a
\* callback that was launched and has not run yet stays pending
TorStop ==
    /\ pc = "tor_stop"
    /\ timer' = CASE timer = "armed" -> "stopped"
                  [] timer = "fired" -> "orphaned"
                  [] OTHER -> timer
    /\ orphans' = IF timer = "fired" THEN orphans + 1 ELSE orphans
    /\ TorReturn(err)
    /\ UNCHANGED <<env, timeout, fs, log, call, guard, child, dur, elapsed,
                   fired,
                   earlyExit, firedRunning, killed, err, nstarted, pre,
                   made, cmd>>

\* a second passes while the timer is armed
Tick ==
    /\ pc # "crashed"
    /\ timer = "armed"
    /\ elapsed < dur
    /\ elapsed' = elapsed + 1
    /\ UNCHANGED <<env, timeout, fs, log, pc, call, guard, child, timer, dur,
                   fired,
                   earlyExit, firedRunning, killed, err, ret, nstarted, orphans, pre,
                   made, cmd>>

\* dur has elapsed: the runtime launches the callback in its own goroutine
TimerFire ==
    /\ pc # "crashed"
    /\ timer = "armed"
    /\ elapsed >= dur
    /\ timer' = "fired"
    /\ fired' = TRUE
    /\ firedRunning' = (child.st = "running")
    /\ UNCHANGED <<env, timeout, fs, log, pc, call, guard, child, dur, elapsed,
                   earlyExit, killed, err, ret, nstarted, orphans, pre,
                   made, cmd>>

\* the callback: e := cmd.Process.Kill(); if e != nil { panic(e) }.
\* Kill ends a running child and fails on a child that Wait has reaped
\* ("os: process already finished").  On a child that has exited and is not
\* reaped yet, kill(2) succeeds and does nothing, TerminateProcess is refused
KillCallback ==
    /\ pc # "crashed"
    /\ timer = "fired"
    /\ \/ /\ child.st = "running"
          /\ child' = [child EXCEPT !.st = "exited", !.status = KilledStatus]
          /\ killed' = TRUE
          /\ timer' = "done"
          /\ UNCHANGED pc
       \/ /\ child.st = "exited"
          /\ platform # "windows"
          /\ timer' = "done"
          /\ UNCHANGED <<child, killed, pc>>
       \/ /\ \/ child.st = "exited" /\ platform = "windows"
             \/ child.st = "reaped"
          /\ timer' = "panicked"
          /\ pc' = "crashed"
          /\ UNCHANGED <<child, killed>>
    /\ UNCHANGED <<env, timeout, fs, log, call, guard, dur, elapsed, fired,
                   earlyExit, firedRunning,
                   err, ret, nstarted, orphans, pre,
                   made, cmd>>

\* a callback left pending by a returned timeOutRun runs: its process was
\* reaped, Kill fails and the callback panics
OrphanKill ==
    /\ pc # "crashed"
    /\ orphans > 0
    /\ orphans' = orphans - 1
    /\ pc' = "crashed"
    /\ UNCHANGED <<env, timeout, fs, log, call, guard, proc, err, ret, nstarted,
                   pre,
                   made, cmd>>

\* ---- the child process -----------------------------------------------------------

WritesOutput(op) == op \in {"Thumbnail", "FileCopy", "WordToPdf"}

\* the tool writes its output file into outdir
ToolWrite ==
    /\ pc # "crashed"
    /\ child.st = "running"
    /\ WritesOutput(call.op)
    /\ dir = "dir"
    /\ files' = [files EXCEPT !["out"] = "tool"]
    /\ UNCHANGED <<env, timeout, dir, log, pc, call, guard, proc, err, ret,
                   nstarted,
                   orphans, pre,
                   made, cmd>>

\* what the tool of the call can have printed on its standard output
Printed == IF call.op = "ExtractText" THEN Texts ELSE {""}

\* the child exits by itself with status s
ChildExit(s) ==
    /\ pc # "crashed"
    /\ child.st = "running"
    /\ \E t \in Printed : child' = [st |-> "exited", status |-> s, stdout |-> t]
    /\ earlyExit' = (timer \in {"none", "armed"} /\ elapsed < dur)
    /\ UNCHANGED <<env, timeout, fs, log, pc, call, guard, timer, dur, elapsed,
                   fired, firedRunning, killed,
                   err, ret, nstarted, orphans, pre,
                   made, cmd>>

\* ---- Thumbnail ------------------------------------------------------------------

\* if handleOverwrite(...) { return nil }; return timeOutRun(thumbCmd, timeout)
ThumbnailGuard ==
    /\ pc = "th_guard"
    /\ guard' = Answer(handleOverwrite(call.overwrite, "out"))
    /\ IF handleOverwrite(call.overwrite, "out")
       THEN Return(Nil, "") /\ UNCHANGED <<dur, cmd>>
       ELSE /\ cmd' = buildCmd(thumb, <<InputPath \o <<"[0]">>,
                                        JoinPath(OutDirPath, OutName)>>)
            /\ pc' = "tor_start"
            /\ dur' = timeout
            /\ UNCHANGED ret
    /\ UNCHANGED <<env, timeout, fs, log, call, child, timer, elapsed, fired,
                   earlyExit, firedRunning, killed, err, nstarted, orphans, pre,
                   made>>

\* ---- FileCopy --------------------------------------------------------------------

FileCopyGuard ==
    /\ pc = "fc_guard"
    /\ guard' = Answer(handleOverwrite(call.overwrite, "out"))
    /\ IF handleOverwrite(call.overwrite, "out")
       THEN Return(Nil, "")
       ELSE pc' = "fc_mkdir" /\ UNCHANGED ret
    /\ UNCHANGED <<env, timeout, fs, log, call, proc, err, nstarted, orphans,
                   pre,
                   made, cmd>>

FileCopyMakeDir ==
    /\ pc = "fc_mkdir"
    /\ dir' = MkdirAllPost(dir)
    /\ made' = [called |-> TRUE, err |-> MakeDir(dir).err,
                existed |-> MakeDir(dir).existed]
    /\ IF MakeDir(dir).err # Nil
       THEN Return(MakeDir(dir).err, "")
       ELSE pc' = "fc_run" /\ UNCHANGED ret
    /\ UNCHANGED <<env, timeout, files, log, call, guard, proc, err, nstarted,
                   orphans, pre,
                   cmd>>

\* return fileCopy(input, outdir): cpCmd.Run() starts the tool, or fails to
FileCopyRun ==
    /\ pc = "fc_run"
    /\ cmd' = fileCopyCmd(InputPath, OutDirPath)
    /\ \E ok \in BOOLEAN :
          IF ok
          THEN Started /\ pc' = "fc_wait" /\ UNCHANGED <<err, ret>>
          ELSE /\ err' = Error("start")
               /\ Return(fileCopy(Error("start")), "")
               /\ UNCHANGED <<child, nstarted>>
    /\ UNCHANGED <<env, timeout, fs, log, call, guard, timer, dur, elapsed,
                   fired,
                   earlyExit, firedRunning, killed, orphans, pre,
                   made>>

\* cpCmd.Run() returns once the child has exited; fileCopy interprets its error
FileCopyWait ==
    /\ pc = "fc_wait"
    /\ child.st = "exited"
    /\ child' = [child EXCEPT !.st = "reaped"]
    /\ err' = WaitErr(child.status)
    /\ Return(fileCopy(WaitErr(child.status)), "")
    /\ UNCHANGED <<env, timeout, fs, log, call, guard, timer, dur, elapsed,
                   fired,
                   earlyExit, firedRunning, killed, nstarted, orphans, pre,
                   made, cmd>>

\* ---- FileCopyLog -----------------------------------------------------------------

FileCopyLogGuard ==
    /\ pc = "fl_guard"
    /\ guard' = Answer(handleOverwrite(call.overwrite, "out"))
    /\ IF handleOverwrite(call.overwrite, "out")
       THEN Return(Nil, "")
       ELSE pc' = "fl_mkdir" /\ UNCHANGED ret
    /\ UNCHANGED <<env, timeout, fs, log, call, proc, err, nstarted, orphans,
                   pre,
                   made, cmd>>

FileCopyLogMakeDir ==
    /\ pc = "fl_mkdir"
    /\ dir' = MkdirAllPost(dir)
    /\ made' = [called |-> TRUE, err |-> MakeDir(dir).err,
                existed |-> MakeDir(dir).existed]
    /\ IF MakeDir(dir).err # Nil
       THEN Return(MakeDir(dir).err, "")
       ELSE pc' = "fl_log" /\ UNCHANGED ret
    /\ UNCHANGED <<env, timeout, files, log, call, guard, proc, err, nstarted,
                   orphans, pre,
                   cmd>>

\* FileCopyLog returning nil whatever the log writer returned
FileCopyLogPrintSilent ==
    /\ pc = "fl_log"
    /\ cmd' = copyCmd(InputPath, OutDirPath, TRUE)
    /\ IF sinkOk
       THEN log' = Append(log, Join(copyCmd(InputPath, OutDirPath, TRUE).args,
                                    <<Space>>))
       ELSE UNCHANGED log
    /\ Return(Nil, "")
    /\ UNCHANGED <<env, timeout, fs, call, guard, proc, err, nstarted, orphans,
                   pre, made>>

\* cpCmd := copyCmd(input, outdir, true);
\* _, err := fmt.Fprintln(lg, strings.Join(cpCmd.Args, " ")); return err
FileCopyLogPrint ==
    /\ pc = "fl_log"
    /\ cmd' = copyCmd(InputPath, OutDirPath, TRUE)
    /\ IF sinkOk
       THEN /\ log' = Append(log, Join(copyCmd(InputPath, OutDirPath, TRUE).args,
                                       <<Space>>))
            /\ Return(Nil, "")
       ELSE Return(Error("sink"), "") /\ UNCHANGED log
    /\ UNCHANGED <<env, timeout, fs, call, guard, proc, err, nstarted, orphans,
                   pre,
                   made>>

\* ---- WordToPdf -------------------------------------------------------------------

\* WordToPdf returning the empty path when it skips
WordToPdfGuardNoPath ==
    /\ pc = "wp_guard"
    /\ guard' = Answer(handleOverwrite(call.overwrite, "out"))
    /\ IF handleOverwrite(call.overwrite, "out")
       THEN Return(Nil, "")
       ELSE pc' = "wp_mkdir" /\ UNCHANGED ret
    /\ UNCHANGED <<env, timeout, fs, log, call, proc, err, nstarted, orphans,
                   pre,
                   made, cmd>>

\* if handleOverwrite(overwrite, output) { return output, nil }
WordToPdfGuard ==
    /\ pc = "wp_guard"
    /\ guard' = Answer(handleOverwrite(call.overwrite, "out"))
    /\ IF handleOverwrite(call.overwrite, "out")
       THEN Return(Nil, "out")
       ELSE pc' = "wp_mkdir" /\ UNCHANGED ret
    /\ UNCHANGED <<env, timeout, fs, log, call, proc, err, nstarted, orphans,
                   pre,
                   made, cmd>>

\* WordToPdf going on to the conversion whatever MakeDir returned
WordToPdfMakeDirIgnoring ==
    /\ pc = "wp_mkdir"
    /\ dir' = MkdirAllPost(dir)
    /\ made' = [called |-> TRUE, err |-> MakeDir(dir).err,
                existed |-> MakeDir(dir).existed]
    /\ cmd' = buildCmd(pdf, <<OutDirPath, InputPath>>)
    /\ pc' = "tor_start"
    /\ dur' = timeout
    /\ UNCHANGED <<env, timeout, files, log, call, guard, child, timer, elapsed,
                   fired, earlyExit, firedRunning, killed, err, ret, nstarted,
                   orphans, pre>>

\* if err, _ := MakeDir(outdir); err != nil { return "", err }; then
\* pdfCmd := buildCmd(pdf, outdir, input); _ = timeOutRun(pdfCmd, timeout)
WordToPdfMakeDir ==
    /\ pc = "wp_mkdir"
    /\ dir' = MkdirAllPost(dir)
    /\ made' = [called |-> TRUE, err |-> MakeDir(dir).err,
                existed |-> MakeDir(dir).existed]
    /\ IF MakeDir(dir).err # Nil
       THEN Return(MakeDir(dir).err, "") /\ UNCHANGED <<dur, cmd>>
       ELSE /\ cmd' = buildCmd(pdf, <<OutDirPath, InputPath>>)
            /\ pc' = "tor_start"
            /\ dur' = timeout
            /\ UNCHANGED ret
    /\ UNCHANGED <<env, timeout, files, log, call, guard, child, timer, elapsed,
                   fired,
                   earlyExit, firedRunning, killed, err, nstarted, orphans, pre>>

\* what a failed os.RemoveAll(outdir) can leave of the files
PartlyRemoved == {f \in [Names -> Contents] :
                     \A n \in Names : f[n] \in {files[n], "absent"}}

\* WordToPdf without the cleanup of the output directory
WordToPdfStatNoCleanup ==
    /\ pc = "wp_stat"
    /\ IF ~Stat("out")
       THEN Return(Nil, "")
       ELSE Return(Nil, "out")
    /\ UNCHANGED <<env, timeout, fs, log, call, guard, proc, err, nstarted,
                   orphans, pre,
                   made, cmd>>

\* WordToPdf returning the error of timeOutRun instead of dropping it
WordToPdfStatChecked ==
    /\ pc = "wp_stat"
    /\ IF err # Nil
       THEN Return(err, "") /\ UNCHANGED fs
       ELSE IF ~Stat("out")
            THEN \/ /\ dir' = "absent"
                    /\ files' = NoFiles
                    /\ Return(Nil, "")
                 \/ /\ dir # "absent"
                    /\ dir' = dir
                    /\ files' \in PartlyRemoved
                    /\ Return(Error("cantdelete"), "")
            ELSE Return(Nil, "out") /\ UNCHANGED fs
    /\ UNCHANGED <<env, timeout, log, call, guard, proc, err, nstarted, orphans,
                   pre,
                   made, cmd>>

\* WordToPdf removing the output directory whether the output is there or not
WordToPdfStatCleansAlways ==
    /\ pc = "wp_stat"
    /\ dir' = "absent"
    /\ files' = NoFiles
    /\ IF ~Stat("out") THEN Return(Nil, "") ELSE Return(Nil, "out")
    /\ UNCHANGED <<env, timeout, log, call, guard, proc, err, nstarted, orphans,
                   pre, made, cmd>>

\* the result of timeOutRun is dropped; if os.Stat(output) fails, the
\* directory is removed: return "", nil, or the combined error if that fails
WordToPdfStat ==
    /\ pc = "wp_stat"
    /\ IF ~Stat("out")
       THEN \/ /\ dir' = "absent"
               /\ files' = NoFiles
               /\ Return(Nil, "")
            \/ /\ dir # "absent"
               /\ dir' = dir
               /\ files' \in PartlyRemoved
               /\ Return(Error("cantdelete"), "")
       ELSE Return(Nil, "out") /\ UNCHANGED fs
    /\ UNCHANGED <<env, timeout, log, call, guard, proc, err, nstarted, orphans,
                   pre,
                   made, cmd>>

\* ---- the specification -----------------------------------------------------------

Next ==
    \/ \E op \in OpNames, ow \in BOOLEAN : Call(op, ow)
    \/ \E t \in 1..MaxTimeout : SetTimeout(t)
    \/ ExtractTextGuard
    \/ ExtractTextMakeDir
    \/ ExtractTextOutput
    \/ ExtractTextWrite
    \/ ThumbnailGuard
    \/ FileCopyGuard
    \/ FileCopyMakeDir
    \/ FileCopyRun
    \/ FileCopyWait
    \/ FileCopyLogGuard
    \/ FileCopyLogMakeDir
    \/ FileCopyLogPrint
    \/ WordToPdfGuard
    \/ WordToPdfMakeDir
    \/ WordToPdfStat
    \/ TorStart
    \/ TorAfterFunc
    \/ TorWait
    \/ TorStop
    \/ Tick
    \/ TimerFire
    \/ KillCallback
    \/ OrphanKill
    \/ ToolWrite
    \/ \E s \in ExitCodes : ChildExit(s)

Spec == Init /\ [][Next]_vars

\* ---- the configuration setters, before the calls -------------------------------------------

\* ffmpegInstall = p; ffmpeg = []string{ffmpegInstall}
SetFFMpegPath(p) ==
    /\ pc \in {"idle", "done"}
    /\ ffmpegInstall' = p
    /\ ffmpeg' = ffmpegTemplate(ffmpegInstall')
    /\ last' = [last EXCEPT !.ffmpeg = p]
    /\ UNCHANGED <<platform, sinkOk, strings, timeout, fs, log, pc, call, guard,
                   proc, err, ret, nstarted, orphans, pre, made, cmd,
                   tikaInstall, imageMInstall, libreOfficeInstall,
                   thumbDimensions, extract, thumb, pdf>>

\* tikaInstall = p; extract = []string{"java", "-jar", tikaInstall, "-t"}
SetTikaPath(p) ==
    /\ pc \in {"idle", "done"}
    /\ tikaInstall' = p
    /\ extract' = extractTemplate(tikaInstall')
    /\ last' = [last EXCEPT !.tika = p]
    /\ UNCHANGED <<platform, sinkOk, strings, timeout, fs, log, pc, call, guard,
                   proc, err, ret, nstarted, orphans, pre, made, cmd,
                   imageMInstall, libreOfficeInstall, ffmpegInstall,
                   thumbDimensions, thumb, pdf, ffmpeg>>

\* imageMInstall = p; thumb is rebuilt from it and from thumbDimensions
SetImageMPath(p) ==
    /\ pc \in {"idle", "done"}
    /\ imageMInstall' = p
    /\ thumb' = thumbTemplate(imageMInstall', thumbDimensions)
    /\ last' = [last EXCEPT !.imageM = p]
    /\ UNCHANGED <<platform, sinkOk, strings, timeout, fs, log, pc, call, guard,
                   proc, err, ret, nstarted, orphans, pre, made, cmd,
                   tikaInstall, libreOfficeInstall, ffmpegInstall,
                   thumbDimensions, extract, pdf, ffmpeg>>

\* libreOfficeInstall = p; pdf is rebuilt from it
SetLibreOPath(p) ==
    /\ pc \in {"idle", "done"}
    /\ libreOfficeInstall' = p
    /\ pdf' = pdfTemplate(libreOfficeInstall')
    /\ last' = [last EXCEPT !.libreO = p]
    /\ UNCHANGED <<platform, sinkOk, strings, timeout, fs, log, pc, call, guard,
                   proc, err, ret, nstarted, orphans, pre, made, cmd,
                   tikaInstall, imageMInstall, ffmpegInstall,
                   thumbDimensions, extract, thumb, ffmpeg>>

\* SetThumb rebuilding the template around the default path of the tool
SetThumbDefaultPath(x, y) ==
    /\ pc \in {"idle", "done"}
    /\ thumbDimensions' = Sprintf(x, y)
    /\ thumb' = thumbTemplate(DefaultImageM, thumbDimensions')
    /\ last' = [last EXCEPT !.dimensions = Sprintf(x, y)]
    /\ UNCHANGED <<platform, sinkOk, strings, timeout, fs, log, pc, call, guard,
                   proc, err, ret, nstarted, orphans, pre, made, cmd,
                   tikaInstall, imageMInstall, libreOfficeInstall,
                   ffmpegInstall, extract, pdf, ffmpeg>>

\* thumbDimensions = fmt.Sprintf("%dx%d", x, y); thumb is rebuilt from
\* imageMInstall and from it
SetThumb(x, y) ==
    /\ pc \in {"idle", "done"}
    /\ thumbDimensions' = Sprintf(x, y)
    /\ thumb' = thumbTemplate(imageMInstall, thumbDimensions')
    /\ last' = [last EXCEPT !.dimensions = Sprintf(x, y)]
    /\ UNCHANGED <<platform, sinkOk, strings, timeout, fs, log, pc, call, guard,
                   proc, err, ret, nstarted, orphans, pre, made, cmd,
                   tikaInstall, imageMInstall, libreOfficeInstall,
                   ffmpegInstall, extract, pdf, ffmpeg>>

\* the operations that run a configured tool
ConfiguredOps == {"ExtractText", "Thumbnail", "WordToPdf"}

\* one caller on Windows, with no output directory yet
InitConfigured ==
    /\ platform = "windows"
    /\ dir = "absent"
    /\ files = NoFiles
    /\ sinkOk = TRUE
    /\ InitProgram
    /\ NoStrings

\* the setters, and the calls up to the start of the tool
NextConfig ==
    \/ \E p \in SetPaths : SetFFMpegPath(p)
    \/ \E p \in SetPaths : SetTikaPath(p)
    \/ \E p \in SetPaths : SetImageMPath(p)
    \/ \E p \in SetPaths : SetLibreOPath(p)
    \/ \E x, y \in 1..MaxDim : SetThumb(x, y)
    \/ \E t \in 1..MaxTimeout : SetTimeout(t)
    \/ \E op \in ConfiguredOps, ow \in BOOLEAN : Call(op, ow)
    \/ ExtractTextGuard
    \/ ExtractTextMakeDir
    \/ ExtractTextOutput
    \/ ThumbnailGuard
    \/ WordToPdfGuard
    \/ WordToPdfMakeDir
    \/ WordToPdfStat
    \/ TorStart
    \/ TorAfterFunc

SpecConfig == InitConfigured /\ [][NextConfig]_vars

\* ---- the pure functions, applied ----------------------------------------------------

\* everything but the function under test
program == <<platform, sinkOk, config, timeout, fs, log, pc, call, guard,
             proc, err, ret, nstarted, orphans, pre, made, cmd>>

\* the tokens of the templates and of the trailing arguments
Tokens == {<<"a">>, <<"b", Space, "c">>, <<>>}

\* the pieces of the paths given to quotePath
QuotePieces == {Space, Quote, Sep, "a"}

\* the pieces of the input paths given to WordToPdf
InputPieces == {Sep, Dot, "a", "txt", "Doc", "doc", "DOC", "docx", "DOCX",
                "dotx", "DOTX", "docm", "DOCM"}

OutDirs == {<<"out">>, <<"out", Sep, "sub">>, <<>>}

BuildCmdArgs == {[f |-> "buildCmd", template |-> t, custom |-> c] :
                    t \in SeqsUpTo(Tokens, MaxTokens),
                    c \in SeqsUpTo(Tokens, MaxTokens)}
QuotePathArgs == {[f |-> "quotePath", path |-> q] :
                     q \in SeqsUpTo(QuotePieces, MaxLen)}
WordToPdfArgs == {[f |-> "WordToPdf", input |-> i, outdir |-> o] :
                     i \in SeqsUpTo(InputPieces, MaxLen), o \in OutDirs}

InitStrings ==
    /\ platform = "windows"
    /\ dir = "absent"
    /\ files = NoFiles
    /\ sinkOk = TRUE
    /\ InitProgram
    /\ fn = "none"
    /\ \/ arg \in BuildCmdArgs
       \/ arg \in QuotePathArgs
       \/ arg \in WordToPdfArgs
    /\ res = <<>>
    /\ res2 = <<>>

ApplyBuildCmd ==
    /\ fn = "none"
    /\ arg.f = "buildCmd"
    /\ fn' = "buildCmd"
    /\ res' = buildCmd(arg.template, arg.custom)
    /\ UNCHANGED <<program, arg, res2>>

ApplyQuotePath ==
    /\ fn = "none"
    /\ arg.f = "quotePath"
    /\ fn' = "quotePath"
    /\ res' = quotePath(arg.path)
    /\ UNCHANGED <<program, arg, res2>>

\* quotePath on what quotePath returned
ApplyQuotePathAgain ==
    /\ fn = "quotePath"
    /\ fn' = "quotePath twice"
    /\ res2' = quotePath(res)
    /\ UNCHANGED <<program, arg, res>>

ApplyWordToPdfOutput ==
    /\ fn = "none"
    /\ arg.f = "WordToPdf"
    /\ fn' = "WordToPdf"
    /\ res' = WordToPdfOutput(arg.input, arg.outdir)
    /\ UNCHANGED <<program, arg, res2>>

NextStrings ==
    \/ ApplyBuildCmd
    \/ ApplyQuotePath
    \/ ApplyQuotePathAgain
    \/ ApplyWordToPdfOutput

SpecStrings == InitStrings /\ [][NextStrings]_vars

\* ---- notions of the properties -------------------------------------------------------

\* the call went through timeOutRun, which started the child and has returned
TorReturned ==
    /\ call.op \in {"Thumbnail", "WordToPdf"}
    /\ pc \in {"wp_stat", "done"}
    /\ nstarted = 1

\* the destination existed when the call began
DestExisted == pre.dir = "dir" /\ pre.files["out"] # "absent"

\* the call's file system and log are as they were when the call began
NothingChanged == dir = pre.dir /\ files = pre.files /\ log = pre.log

\* ---- the bounded executor ---------------------------------------------------------

\* C1: when the child exits by itself before the timeout has elapsed, the
\* kill callback never fires, the program is not brought down, and timeOutRun
\* returns the error of the child's own exit status.
C1_EarlyExitRealStatus ==
    (call.op \in {"Thumbnail", "WordToPdf"} /\ earlyExit) =>
        /\ ~fired
        /\ pc # "crashed"
        /\ TorReturned => err = WaitErr(child.status)

\* C2: when the timeout elapses on a child that is still running, the child
\* is killed and timeOutRun returns a non-success outcome: the run does not
\* end without that return, and the error returned is not nil.
C2_TimeoutKillsAndReturns ==
    (call.op \in {"Thumbnail", "WordToPdf"} /\ firedRunning) =>
        /\ pc # "crashed"
        /\ TorReturned => (killed /\ err # Nil)

\* C3: a Kill of a process that has already exited is harmless: no callback
\* panics, the program is never brought down.
C3_KillOfExitedIsBenign == pc # "crashed" /\ timer # "panicked"

\* ---- the overwrite guard ------------------------------------------------------------

\* C4: handleOverwrite answers skip exactly when overwrite is false and the
\* destination exists; with overwrite set, or with no destination, it answers
\* proceed.
C4_OverwriteGuard ==
    guard # "none" => (guard = "skip" <=> (~call.overwrite /\ DestExisted))

C4_Witness == guard = "proceed" /\ call.overwrite /\ DestExisted

\* C5: a call with overwrite false whose destination exists changes nothing
\* (no directory, no file, no log line, no child process) and returns
\* success, WordToPdf with the destination path.
C5_SkipIsNoOp ==
    (call.op \in OpNames /\ ~call.overwrite /\ DestExisted) =>
        /\ NothingChanged
        /\ nstarted = 0
        /\ pc = "done" =>
              /\ ret.err = Nil
              /\ ret.path = IF call.op = "WordToPdf" THEN "out" ELSE ""

C5_Witness ==
    /\ pc = "done"
    /\ call.op = "WordToPdf"
    /\ ~call.overwrite
    /\ DestExisted
    /\ ret.path = "out"

\* ---- the facade operations ----------------------------------------------------------

\* the call got as far as running its tool: the tool ran and was waited for,
\* or it could not be started
RanTool == child.st = "reaped"
StartFailed == err.kind = "start"
ToolSucceeded == RanTool /\ child.status = 0
ToolFailed == StartFailed \/ (RanTool /\ child.status # 0)

C7_RoboExitCodes ==
    (platform = "windows" /\ pc = "done" /\ call.op = "FileCopy") =>
        /\ StartFailed => ret.err.kind = "copy"
        /\ (RanTool /\ child.status = 0) => ret.err.kind = "nocopy"
        /\ (RanTool /\ child.status = 1) => ret.err = Nil
        /\ (RanTool /\ child.status > 1) => ret.err.kind = "copy"

C7_Witness ==
    /\ platform = "windows"
    /\ pc = "done"
    /\ call.op = "FileCopy"
    /\ RanTool
    /\ child.status = 0
    /\ ret.err.kind = "nocopy"

\* C8: after the bounded run WordToPdf returns the destination path only if
\* a file is there; if none is there it has removed the output directory and
\* returns the empty path with no error, or the removal failed and it returns
\* the combined error; the tool's exit status plays no part.
C8_PdfPostcondition ==
    (pc = "done" /\ call.op = "WordToPdf") =>
        /\ ret.path # "" => Stat(ret.path)
        /\ (RanTool \/ StartFailed) =>
              IF Stat("out")
              THEN ret = [err |-> Nil, path |-> "out"]
              ELSE \/ ret = [err |-> Nil, path |-> ""] /\ dir = "absent"
                   \/ /\ ret = [err |-> Error("cantdelete"), path |-> ""]
                      /\ dir # "absent"

C8_Witness ==
    /\ pc = "done"
    /\ call.op = "WordToPdf"
    /\ ToolSucceeded
    /\ ret = [err |-> Nil, path |-> ""]
    /\ dir = "absent"

\* C9: Thumbnail returns nil only when the guard skipped or the tool ran to
\* exit status 0; a tool that does not start, exits non-zero or is killed on
\* timeout makes it return an error.
C9_ThumbnailSurfacesFailure ==
    (pc = "done" /\ call.op = "Thumbnail") =>
        /\ ret.err = Nil <=> (guard = "skip" \/ (ToolSucceeded /\ ~killed))
        /\ ToolFailed => ret.err # Nil
        /\ killed => ret.err # Nil

C9_Witness ==
    /\ pc = "done"
    /\ call.op = "Thumbnail"
    /\ killed
    /\ ret.err = [kind |-> "exit", code |-> KilledStatus]

\* C10 as claimed: when the tool was killed on timeout, the caller of
\* Thumbnail and the caller of WordToPdf receive a failure.
C10_TimeoutIsFailureAsClaimed ==
    (pc = "done" /\ killed) => ret.err # Nil

\* C10 as amended: when the tool was killed on timeout, Thumbnail returns the
\* kill's error; WordToPdf drops it and returns what it returns after any
\* other run: the path if the file is there, else the empty path with no
\* error, or the combined error of a failed removal.
C10_TimeoutReported ==
    (pc = "done" /\ killed) =>
        IF call.op = "Thumbnail"
        THEN ret.err = [kind |-> "exit", code |-> KilledStatus]
        ELSE \/ ret = [err |-> Nil, path |-> "out"] /\ Stat("out")
             \/ ret = [err |-> Nil, path |-> ""] /\ dir = "absent"
             \/ ret = [err |-> Error("cantdelete"), path |-> ""]

C10_Witness ==
    /\ pc = "done"
    /\ killed
    /\ call.op = "WordToPdf"
    /\ ret = [err |-> Nil, path |-> ""]

\* ---- the command builder and the path functions -----------------------------------------

\* C12: for a non-empty template T and trailing arguments A, the tokens of
\* the invocation buildCmd returns are exactly T followed by A, each token
\* as it was given whatever spaces it holds, and T is as it was before
C12_CommandBuilder ==
    [][(fn = "none" /\ fn' = "buildCmd" /\ arg.template # <<>>) =>
          /\ Len(res'.args) = Len(arg.template) + Len(arg.custom)
          /\ \A i \in 1..Len(arg.template) : res'.args[i] = arg.template[i]
          /\ \A i \in 1..Len(arg.custom) :
                res'.args[Len(arg.template) + i] = arg.custom[i]
          /\ arg'.template = arg.template]_vars

C12_Witness ==
    /\ fn = "buildCmd"
    /\ arg.template = << <<"b", Space, "c">>, <<"a">> >>
    /\ arg.custom = << <<"a">>, <<"b", Space, "c">> >>
    /\ res.args = << <<"b", Space, "c">>, <<"a">>, <<"a">>, <<"b", Space, "c">> >>

\* C13: quotePath(p) is p when p begins with a double quote; otherwise it is
\* p wrapped in double quotes exactly when p holds a space, and p when it
\* holds none; and quotePath of the result is the result
C13_QuotePath ==
    /\ fn \in {"quotePath", "quotePath twice"} =>
          LET p == arg.path
              quoted == Len(p) > 0 /\ p[1] = Quote
              spaced == \E i \in 1..Len(p) : p[i] = Space
          IN /\ quoted => res = p
             /\ ~quoted => ((res = <<Quote>> \o p \o <<Quote>>) <=> spaced)
             /\ ~quoted /\ ~spaced => res = p
    /\ fn = "quotePath twice" => res2 = res

C13_Witness ==
    /\ fn = "quotePath twice"
    /\ arg.path = <<"a", Space, "a">>
    /\ res = <<Quote, "a", Space, "a", Quote>>
    /\ res2 = res

\* the Word family of extensions, in lower and in upper case
C14_WordFamily ==
    {<<Dot, x>> : x \in {"doc", "docx", "dotx", "docm",
                         "DOC", "DOCX", "DOTX", "DOCM"}}

\* C14: the path WordToPdf checks and returns is outdir joined with the
\* base name of the input, its extension replaced by ".pdf" when that is
\* of the Word family, and with ".pdf" appended to it otherwise
C14_PdfDestination ==
    fn = "WordToPdf" =>
       LET b == Base(arg.input)
           e == Ext(arg.input)
       IN IF e \in C14_WordFamily
          THEN \E k \in 0..Len(b) :
                  /\ SubSeq(b, 1, k) \o e = b
                  /\ res = JoinPath(arg.outdir, SubSeq(b, 1, k) \o <<Dot, "pdf">>)
          ELSE res = JoinPath(arg.outdir, b \o <<Dot, "pdf">>)

C14_Witness ==
    /\ fn = "WordToPdf"
    /\ arg.input = <<"a", Dot, "DOCX">>
    /\ arg.outdir = <<"out">>
    /\ res = <<"out", Sep, "a", Dot, "pdf">>

\* ---- the audited copy and the directory step ----------------------------------------------

\* the line FileCopyLog prints on Windows for InputPath and OutDirPath
XcopyLine ==
    <<"xcopy", Space, Quote, "in", Space, "dir", Sep, "a", Dot, "doc", Quote,
      Space, Quote, "out", Space, "dir", Quote>>

C15_MakeDirThreeWay ==
    made.called =>
       /\ pre.dir = "dir" => made = [called |-> TRUE, err |-> Nil, existed |-> TRUE]
       /\ pre.dir = "absent" =>
             made = [called |-> TRUE, err |-> Nil, existed |-> FALSE]
       /\ pre.dir \in {"file", "nocreate"} => made.err # Nil

\* ---- the configuration -------------------------------------------------------------------

\* C16: after any sequence of setter calls, a call runs with the values set
\* last: timeOutRun is given the last timeout, the thumbnail command
\* carries the last path of the image tool and the last dimensions, the
\* extraction command the last path of Tika, and the conversion command the
\* last path of LibreOffice
C16_LastConfiguredWins ==
    /\ pc \in {"tor_start", "tor_arm", "tor_wait"} => dur = last.timeout
    /\ (pc \notin {"idle", "done"} /\ cmd # NoCmd) =>
          CASE call.op = "Thumbnail" ->
                  /\ cmd.path = last.imageM
                  /\ cmd.args[1] = last.imageM
                  /\ cmd.args[3] = last.dimensions
            [] call.op = "ExtractText" -> cmd.args[3] = last.tika
            [] call.op = "WordToPdf" -> cmd.args[1] = last.libreO
            [] OTHER -> TRUE

C16_Witness ==
    /\ pc = "tor_wait"
    /\ timer = "armed"
    /\ call.op = "Thumbnail"
    /\ last.imageM = <<"D:\\my", Space, "tools\\bin">>
    /\ last.dimensions = <<"2x1">>
    /\ last.timeout = 2
    /\ dur = 2
    /\ cmd.args[1] = <<"D:\\my", Space, "tools\\bin">>
    /\ cmd.args[3] = <<"2x1">>

\* ---- the timer, the waits and the order of the steps -------------------------------------

\* the call is blocked until its child has exited
Waiting == pc \in {"et_wait", "fc_wait", "tor_wait"} /\ child.st = "running"

\* what was in the output directory when the call began is still there
PreExistingKept ==
    pre.dir = "dir" =>
       /\ dir = "dir"
       /\ \A n \in Names : pre.files[n] # "absent" => files[n] # "absent"

\* C17: the timer is armed only while timeOutRun has a started child and
\* has not yet stopped the timer; a failed start returns at once with no
\* timer; and once timeOutRun has returned, no timer is armed and no kill
\* is pending
C17_TimerWindow ==
    /\ timer = "armed" => (pc \in {"tor_wait", "tor_stop"} /\ nstarted = 1)
    /\ (pc \in {"wp_stat", "done"} /\ err = Error("start")) => timer = "none"
    /\ (pc \in {"wp_stat", "done"} /\ call.op \in {"Thumbnail", "WordToPdf"}) =>
          /\ timer \notin {"armed", "fired", "orphaned"}
          /\ orphans = 0

\* C18: an operation that waits for its tool has a kill on the way, the
\* timer armed or its callback launched, so that a tool that never exits by
\* itself is killed and the operation returns
C18_BoundedAttempt ==
    Waiting => timer \in {"armed", "fired"}

\* C19: the guard answers first, then MakeDir runs, and only then is the
\* command built and the tool started: a built command or a started tool
\* has a guard that let the call proceed and a MakeDir that returned nil
C19_StepOrder ==
    /\ made.called => guard = "proceed"
    /\ (cmd # NoCmd \/ nstarted > 0) =>
          /\ guard = "proceed"
          /\ made.called
          /\ made.err = Nil

\* C20 as claimed: a directory that existed before a WordToPdf call, and
\* the files that were in it, are still there whatever the call did
C20_DeletesOnlyFreshAsClaimed ==
    call.op = "WordToPdf" => PreExistingKept

\* C20: when WordToPdf has run its tool and finds no output, it removes the
\* output directory with all that is in it, created by the call or not, or
\* returns the combined error; on every other path of WordToPdf what was in
\* the directory before the call is still there
C20_CleanupOnNoOutput ==
    (call.op = "WordToPdf" /\ pc = "done") =>
       IF guard = "proceed" /\ made.err = Nil /\ ret.path = ""
       THEN \/ ret.err = Nil /\ dir = "absent" /\ files = NoFiles
            \/ ret.err = Error("cantdelete") /\ dir # "absent"
       ELSE PreExistingKept

C20_Witness ==
    /\ pc = "done"
    /\ call.op = "WordToPdf"
    /\ pre.dir = "dir"
    /\ pre.files["other"] = "old"
    /\ made = [called |-> TRUE, err |-> Nil, existed |-> FALSE]
    /\ dir = "absent"
    /\ files = NoFiles
    /\ ret = [err |-> Nil, path |-> ""]

\* ---- failures of the directory step, and single attempts ---------------------------------

\* C21: when MakeDir fails in ExtractText, FileCopy, FileCopyLog or
\* WordToPdf, the call returns MakeDir's error and has started no child,
\* written no file and no log line, and removed nothing; MakeDir fails when
\* a file is in the way or the directory cannot be created, not when the
\* directory is there already, and then the call goes on to build its command
C21_MakeDirFailurePropagated ==
    made.called =>
       /\ pre.dir \in {"file", "nocreate"} => made.err # Nil
       /\ pre.dir = "dir" => made.err = Nil
       /\ (pc = "done" /\ made.err # Nil) =>
             /\ ret = [err |-> made.err, path |-> ""]
             /\ nstarted = 0
             /\ child = NoChild
             /\ cmd = NoCmd
             /\ dir = pre.dir
             /\ files = pre.files
             /\ log = pre.log
       /\ (pc = "done" /\ made.err = Nil) => cmd # NoCmd

C21_Witness ==
    /\ pc = "done"
    /\ call.op = "WordToPdf"
    /\ pre.dir = "file"
    /\ made.called
    /\ ret = [err |-> Error("mkdir"), path |-> ""]
    /\ nstarted = 0
    /\ dir = "file"

\* C22: a call starts at most one child process, whether that process
\* failed to start, exited with any status, was killed on timeout or left
\* no output
C22_NoRetries ==
    nstarted <= 1

C22_Witness ==
    /\ pc = "done"
    /\ call.op = "Thumbnail"
    /\ nstarted = 1
    /\ killed
    /\ ret.err # Nil

====
